---- MODULE Spec2Model ----
(***************************************************************************)
(* The chat front-end of src/chatbot_gui.py (ChatbotGUI, its worker thread *)
(* and its 100 ms queue poller) and the supervisor generators of           *)
(* src/chatbot_gui.py and src/integration_example.py.                      *)
(*                                                                         *)
(* Text is a sequence of tokens (strings); a Python value that may be None *)
(* is a sequence of length 0 (None) or 1 (the text).                       *)
(***************************************************************************)
EXTENDS Integers, Sequences, FiniteSets, TLC

VARIABLES
    supervisor,       \* self.supervisor: the kind of object plugged in
    messages,         \* self.messages: the transcript, a sequence of ChatMessage
    message_queue,    \* self.message_queue: FIFO of (message_type, content)
    is_processing,    \* self.is_processing
    show_thoughts,    \* self.show_thoughts
    input_text,       \* the content of the self.input_text widget
    widgets,          \* children of self.chat_content_frame, in grid order
    workers,          \* the worker threads started so far, in start order
    gui_pc,           \* position of the GUI thread: "idle" or "draining"
    pending_checks,   \* number of check_message_queue calls scheduled by root.after
    event,            \* history: the submit_message call of the last step, if any
    msg_req,          \* history: for each transcript entry, the request it belongs to
    queue_req,        \* history: for each queued payload, the worker that put it
    iteration,        \* integration_example.py: the supervisor generator being iterated
    conversation_history  \* YourActualSupervisor.conversation_history

vars == <<supervisor, messages, message_queue, is_processing, show_thoughts,
          input_text, widgets, workers, gui_pc, pending_checks,
          event, msg_req, queue_req, iteration, conversation_history>>

\* the state of integration_example.py, which the GUI does not touch
IntegrationVars == <<iteration, conversation_history>>

----------------------------------------------------------------------------
(* Bounds of the model *)

\* accepted submissions explored
MaxRequests == 2
\* elements a plugged-in supervisor yields before its answer, raise or exhaustion
MaxYield == 1
\* process_input calls made on the supervisors of integration_example.py
MaxCalls == 2

----------------------------------------------------------------------------
(* Text helpers *)

Whitespace == {" ", "\n", "\t"}

None == <<>>
Str(s) == <<s>>
\* Python truthiness of an Optional[str]: neither None nor ""
Truthy(v) == v # None /\ v[1] # <<>>

RECURSIVE LStrip(_)
LStrip(s) == IF s # <<>> /\ Head(s) \in Whitespace THEN LStrip(Tail(s)) ELSE s

RECURSIVE RStrip(_)
RStrip(s) ==
    IF s # <<>> /\ s[Len(s)] \in Whitespace
    THEN RStrip(SubSeq(s, 1, Len(s) - 1))
    ELSE s

\* str.strip()
strip(s) == RStrip(LStrip(s))

\* self.input_text.get("1.0", tk.END): the content and the widget's final newline
TextGet(t) == t \o <<"\n">>

Placeholder == <<"Type your message here...", " ", "(Ctrl+Enter to submit)">>

\* What a user may leave in the input box by typing: nothing, or a message
\* with white space around it. (An empty box still reads as "\n", see TextGet;
\* the placeholder comes from add_placeholder.)
Inputs == { <<>>, <<" ", "a", "\n">> }

----------------------------------------------------------------------------
(* Supervisors *)

Element(t, f) == [thought |-> t, final |-> f]

MockThoughts(user_input) ==
    << <<"Analyzing user input: '">> \o user_input \o <<"'">>,
       <<"Searching knowledge base for relevant information...">>,
       <<"Processing contextual understanding...">>,
       <<"Formulating comprehensive response...">>,
       <<"Finalizing output and ensuring accuracy...">> >>

MockFinalResponse(user_input) ==
    <<"Based on your query '">> \o user_input \o <<"', here's my response: ...">>

\* MockSupervisor.process_query: the elements the generator yields, in order
process_query(user_input) ==
    LET thoughts == MockThoughts(user_input)
    IN  [i \in 1..Len(thoughts) |->
            IF i = Len(thoughts)
            THEN Element(Str(thoughts[i]), Str(MockFinalResponse(user_input)))
            ELSE Element(Str(thoughts[i]), Str(<<>>))]

\* The values a plugged-in supervisor (any object put in place of the mock)
\* yields as its k-th thought and as its answer, and the exception it may raise.
PlugThought(k) == Str(<<"thought ", ToString(k)>>)
PlugAnswer == Str(<<"answer">>)
PlugError == <<"boom">>

Yield(e) == [kind |-> "yield", elem |-> e, exc |-> <<>>]
StopIteration == [kind |-> "stop", elem |-> Element(None, None), exc |-> <<>>]
Raise(msg) == [kind |-> "raise", elem |-> Element(None, None), exc |-> msg]

\* One resumption of the generator `self.supervisor.process_query(user_input)`
\* after it has yielded `yielded`: the set of possible outcomes.
GenNext(sup, user_input, yielded) ==
    IF sup = "MockSupervisor"
    THEN LET all == process_query(user_input)
         IN  IF Len(yielded) < Len(all)
             THEN { Yield(all[Len(yielded) + 1]) }
             ELSE { StopIteration }
    ELSE IF yielded # <<>> /\ Truthy(yielded[Len(yielded)].final)
         THEN { StopIteration }  \* the answer ended the sequence
         ELSE { StopIteration, Raise(PlugError),
                Yield(Element(None, PlugAnswer)) }
              \cup (IF Len(yielded) < MaxYield
                    THEN { Yield(Element(PlugThought(Len(yielded) + 1), None)) }
                    ELSE {})

Supervisors == { "MockSupervisor", "Plugged" }

----------------------------------------------------------------------------
(* Supervisors of integration_example.py. A user text is a sequence of words
   and white space; each generator is given by the elements it yields. *)

Thought(text) == Element(Str(text), None)
Answer(response) == Element(None, response)

\* texts given to process_input
UserTexts ==
    { <<"hello">>, <<"What", " ", "is", " ", "this">>, <<"please", " ", "help">>,
      <<"make", " ", "it">>, <<"show">> }

\* str.lower(), on the words of UserTexts
Lower(word) == IF word = "What" THEN "what" ELSE word

\* `keyword in word`, on the words of UserTexts: "show" holds "how"
HasSubstring(word, keyword) ==
    \/ word = keyword
    \/ word = "show" /\ keyword = "how"

\* any(word in user_input.lower() for word in keywords)
AnyIn(keywords, user_input) ==
    \E k \in keywords : \E i \in 1..Len(user_input) :
        HasSubstring(Lower(user_input[i]), k)

\* YourActualSupervisor._parse_intent
parse_intent(user_input) ==
    IF AnyIn({"question", "what", "how", "why", "when", "where"}, user_input)
    THEN "question"
    ELSE IF AnyIn({"help", "assist", "support"}, user_input)
    THEN "help_request"
    ELSE IF AnyIn({"create", "generate", "make", "build"}, user_input)
    THEN "creation"
    ELSE "general"

\* YourActualSupervisor._needs_knowledge_search
needs_knowledge_search(intent) == intent \in {"question", "help_request"}

\* YourActualSupervisor._search_knowledge_base
search_knowledge_base(query) ==
    [i \in 1..3 |-> <<"Knowledge entry ", ToString(i - 1), " for: ">> \o query]

\* YourActualSupervisor._stream_llm_thoughts
stream_llm_thoughts ==
    << <<"Considering the user's request in detail...">>,
       <<"Cross-referencing with previous context...">>,
       <<"Evaluating multiple response strategies...">>,
       <<"Selecting the most appropriate approach...">>,
       <<"Preparing structured response...">> >>

\* YourActualSupervisor._generate_final_response
generate_final_response(user_input) ==
    <<"\nBased on your input: ">> \o user_input \o <<"\n\nI've analyzed your request ...\n">>

\* YourActualSupervisor.process_input: the elements yielded, in order
YourActual_process_input(user_input) ==
    LET intent == parse_intent(user_input)
    IN  << Thought(<<"Analyzing user input and parsing intent...">>),
           Thought(<<"Detected intent: ", intent>>),
           Thought(<<"Gathering relevant context from conversation history...">>) >>
        \o (IF needs_knowledge_search(intent)
            THEN << Thought(<<"Searching knowledge base for relevant information...">>),
                    Thought(<<"Found ", ToString(Len(search_knowledge_base(user_input))),
                              " relevant knowledge entries">>) >>
            ELSE <<>>)
        \o << Thought(<<"Initiating LLM processing...">>) >>
        \o [i \in 1..Len(stream_llm_thoughts) |-> Thought(stream_llm_thoughts[i])]
        \o << Thought(<<"Generating final response...">>),
              Answer(Str(generate_final_response(user_input))) >>

\* the change of _update_conversation_history that keeps the first 20 entries
\* (conversation_history[:20])
update_conversation_history_keeps_oldest(history, user_input, ai_response) ==
    LET h == history \o << [role |-> "user", content |-> user_input],
                           [role |-> "assistant", content |-> ai_response] >>
    IN  IF Len(h) > 20 THEN SubSeq(h, 1, 20) ELSE h

\* YourActualSupervisor._update_conversation_history
update_conversation_history(history, user_input, ai_response) ==
    LET h == history \o << [role |-> "user", content |-> user_input],
                           [role |-> "assistant", content |-> ai_response] >>
    IN  IF Len(h) > 20 THEN SubSeq(h, Len(h) - 19, Len(h)) ELSE h

\* the text given to the k-th of the earlier process_input calls
PastText(k) == <<"hello", " ", ToString(k)>>

\* conversation_history of a YourActualSupervisor whose process_input was
\* iterated to the end k times, on PastText(1) .. PastText(k)
RECURSIVE HistoryAfter(_)
HistoryAfter(k) ==
    IF k = 0 THEN <<>>
    ELSE update_conversation_history(HistoryAfter(k - 1), PastText(k),
                                     generate_final_response(PastText(k)))

\* the histories the explored calls begin with: that of a new supervisor, and
\* that of one which has served nine calls: its next call fills the history
\* to the limit of 20 entries, the one after exceeds it
Histories == { HistoryAfter(0), HistoryAfter(9) }

\* AsyncSupervisorExample._async_stream_thoughts: the thoughts, in order
async_stream_thoughts ==
    << <<"Async thought processing...">>, <<"Using async LLM capabilities...">> >>

\* AsyncSupervisorExample._async_generate_response
async_generate_response(user_input) == <<"Async response for: ">> \o user_input

\* async_process, the inner async generator: the elements its __anext__ gives
async_process(user_input) ==
    << Element(Str(<<"Starting async processing...">>), None) >>
    \o [i \in 1..Len(async_stream_thoughts) |->
           Element(Str(async_stream_thoughts[i]), None)]
    \o << Element(None, Str(async_generate_response(user_input))) >>

\* the change of process_input that closes the loop behind the while loop
\* instead of in a finally clause
AsyncFinally_after_loop(exit) == IF exit = "exhausted" THEN "closed" ELSE "open"

\* finally: loop.close(), on every way out of the try block: the event loop
\* after the generator was left by `exit`
AsyncFinally(exit) == "closed"

\* the change of AsyncSupervisorExample.process_input that yields the response
\* before the streamed thoughts
Async_process_input_answer_first(user_input) ==
    << Thought(<<"Starting async processing...">>),
       Answer(Str(<<"Async response for: ">> \o user_input)),
       Thought(<<"Async thought processing...">>),
       Thought(<<"Using async LLM capabilities...">>) >>

\* AsyncSupervisorExample.process_input: the elements yielded, in order
Async_process_input(user_input) ==
    << Thought(<<"Starting async processing...">>),
       Thought(<<"Async thought processing...">>),
       Thought(<<"Using async LLM capabilities...">>),
       Answer(Str(<<"Async response for: ">> \o user_input)) >>

\* The objects a SupervisorAdapter may wrap: the methods the object has, what
\* analyze returns, what respond, process_with_callback or get_response
\* returns, and the thoughts process_with_callback hands to its callback.
Methods == {"analyze", "respond", "process_with_callback", "get_response"}
WrappedObjects ==
    [ has : SUBSET Methods,
      analysis : { <<"analysis">> },
      response : { None, Str(<<>>), Str(<<"response">>) },
      callbacks : { <<>>, <<Str(<<"c1">>), Str(<<>>), Str(<<"c2">>)>> } ]
NoObject == [has |-> {}, analysis |-> <<>>, response |-> None, callbacks |-> <<>>]

\* the change of SupervisorAdapter.process_input that yields the response of
\* process_with_callback before the thoughts its callback collected
Adapter_process_input_answer_first(wrapped, user_input) ==
    IF {"analyze", "respond"} \subseteq wrapped.has
    THEN << Thought(<<"Starting analysis...">>),
            Thought(<<"Analysis complete: ">> \o wrapped.analysis),
            Thought(<<"Generating response...">>),
            Answer(wrapped.response) >>
    ELSE IF "process_with_callback" \in wrapped.has
    THEN << Thought(<<"Processing with callback system...">>),
            Answer(wrapped.response) >>
         \o [i \in 1..Len(wrapped.callbacks) |-> Element(wrapped.callbacks[i], None)]
    ELSE IF "get_response" \in wrapped.has
    THEN << Thought(<<"Processing request...">>), Answer(wrapped.response) >>
    ELSE << Answer(Str(<<"Error: Supervisor interface not recognized">>)) >>

\* SupervisorAdapter.process_input: the elements yielded, in order
Adapter_process_input(wrapped, user_input) ==
    IF {"analyze", "respond"} \subseteq wrapped.has
    THEN << Thought(<<"Starting analysis...">>),
            Thought(<<"Analysis complete: ">> \o wrapped.analysis),
            Thought(<<"Generating response...">>),
            Answer(wrapped.response) >>
    ELSE IF "process_with_callback" \in wrapped.has
    THEN << Thought(<<"Processing with callback system...">>) >>
         \o [i \in 1..Len(wrapped.callbacks) |-> Element(wrapped.callbacks[i], None)]
         \o << Answer(wrapped.response) >>
    ELSE IF "get_response" \in wrapped.has
    THEN << Thought(<<"Processing request...">>), Answer(wrapped.response) >>
    ELSE << Answer(Str(<<"Error: Supervisor interface not recognized">>)) >>

Classes == { "MockSupervisor", "YourActualSupervisor", "AsyncSupervisorExample",
             "SupervisorAdapter" }

\* the elements the generator of a supervisor of class cls yields
ElementsOf(cls, wrapped, user_input) ==
    IF cls = "MockSupervisor" THEN process_query(user_input)
    ELSE IF cls = "YourActualSupervisor" THEN YourActual_process_input(user_input)
    ELSE IF cls = "AsyncSupervisorExample" THEN Async_process_input(user_input)
    ELSE Adapter_process_input(wrapped, user_input)

\* A loop `for thought, response in supervisor.process_input(user_input)`:
\* out holds the elements received; status is "none" before the first call,
\* then "running", "exhausted" (StopIteration), "broken" (break: the generator
\* stays suspended), "closed" (the generator was closed or finalised before
\* its end) or "raised" (an exception left the generator). loop is the event
\* loop of AsyncSupervisorExample.process_input: "none" until the generator's
\* body has created it, then "open" or "closed".
Iteration(cls, wrapped, user_input, calls) ==
    [cls |-> cls, wrapped |-> wrapped, user_input |-> user_input,
     out |-> <<>>, status |-> "running", calls |-> calls, loop |-> "none"]
NoIteration ==
    [cls |-> "none", wrapped |-> NoObject, user_input |-> <<>>,
     out |-> <<>>, status |-> "none", calls |-> 0, loop |-> "none"]

----------------------------------------------------------------------------
(* Transcript and rendering *)

ChatMessage(sender, content, message_type) ==
    [sender |-> sender, content |-> content, message_type |-> message_type]

\* the change of create_message_widget that draws every message, whatever
\* the checkbutton says
create_message_widget_shows_all(ws, message, show) == Append(ws, message)

\* create_message_widget: the widget grid after handling `message`
create_message_widget(ws, message, show) ==
    IF message.message_type = "thought" /\ ~show
    THEN ws
    ELSE Append(ws, message)

RECURSIVE RenderAll(_, _, _)
RenderAll(ws, msgs, show) ==
    IF msgs = <<>> THEN ws
    ELSE RenderAll(create_message_widget(ws, Head(msgs), show), Tail(msgs), show)

\* event: the call of submit_message made by the last step, if it was one
Call(busy, text) == [op |-> "submit_message", busy |-> busy, text |-> text]
NoCall == [op |-> "other", busy |-> FALSE, text |-> <<>>]

Init ==
    /\ supervisor \in Supervisors
    /\ messages = <<>>
    /\ message_queue = <<>>
    /\ is_processing = FALSE
    /\ show_thoughts = TRUE
    /\ input_text = Placeholder
    /\ widgets = <<>>
    /\ workers = <<>>
    /\ gui_pc = "idle"
    /\ pending_checks = 1
    /\ event = NoCall
    /\ msg_req = <<>>
    /\ queue_req = <<>>
    /\ iteration = NoIteration
    /\ conversation_history = <<>>

----------------------------------------------------------------------------
(* GUI thread: the input box *)

\* clear_placeholder (<FocusIn>)
ClearPlaceholder(t) ==
    IF strip(TextGet(t)) = Placeholder THEN <<>> ELSE t

\* add_placeholder (<FocusOut>, and called by submit_message)
AddPlaceholder(t) ==
    IF strip(TextGet(t)) = <<>> THEN Placeholder \o t ELSE t

GuiFrame == <<supervisor, messages, message_queue, is_processing, show_thoughts,
              widgets, workers, gui_pc, pending_checks, msg_req, queue_req,
              IntegrationVars>>

\* the user edits the text of the input box
type_text ==
    /\ gui_pc = "idle"
    /\ \E t \in Inputs : input_text' = t
    /\ event' = NoCall
    /\ UNCHANGED GuiFrame

clear_placeholder ==
    /\ gui_pc = "idle"
    /\ input_text' = ClearPlaceholder(input_text)
    /\ event' = NoCall
    /\ UNCHANGED GuiFrame

add_placeholder ==
    /\ gui_pc = "idle"
    /\ input_text' = AddPlaceholder(input_text)
    /\ event' = NoCall
    /\ UNCHANGED GuiFrame

----------------------------------------------------------------------------
(* GUI thread: the transcript *)

\* the change of add_message that inserts the message at the head of
\* self.messages (insert(0, message) for append(message))
add_message_prepends(sender, content, message_type, req) ==
    LET message == ChatMessage(sender, content, message_type)
    IN  /\ messages' = <<message>> \o messages
        /\ widgets' = create_message_widget(widgets, message, show_thoughts)
        /\ msg_req' = <<req>> \o msg_req

\* add_message: append to self.messages, then create_message_widget
add_message(sender, content, message_type, req) ==
    LET message == ChatMessage(sender, content, message_type)
    IN  /\ messages' = Append(messages, message)
        /\ widgets' = create_message_widget(widgets, message, show_thoughts)
        /\ msg_req' = Append(msg_req, req)

\* The thread object created by submit_message, before its first step.
\* yielded is the position of its generator; cur and exc are the locals
\* (output_thoughts, final_res) and e; puts and before are history: the
\* payloads this thread has put, and the transcript when it was submitted.
Thread(user_input, before) ==
    [user_input |-> user_input, pc |-> "next", yielded |-> <<>>,
     cur |-> Element(None, None), exc |-> <<>>, puts |-> <<>>, before |-> before]

\* the change of submit_message that does not test for an empty input
SubmitRejects_accepts_empty(processing, user_input) ==
    \/ processing
    \/ user_input = Placeholder

\* the change of submit_message that does not test is_processing
SubmitRejects_ignores_processing(processing, user_input) ==
    \/ user_input = <<>>
    \/ user_input = Placeholder

\* the change of submit_message that does not test for the placeholder text
SubmitRejects_accepts_placeholder(processing, user_input) ==
    \/ processing
    \/ user_input = <<>>

\* the two early returns of submit_message
SubmitRejects(processing, user_input) ==
    \/ processing
    \/ user_input = <<>>
    \/ user_input = Placeholder

submit_message ==
    /\ gui_pc = "idle"
    /\ event' = Call(is_processing, input_text)
    /\ LET user_input == strip(TextGet(input_text))
       IN  IF SubmitRejects(is_processing, user_input)
           THEN UNCHANGED <<input_text, GuiFrame>>
           ELSE /\ Len(workers) < MaxRequests
                /\ input_text' = AddPlaceholder(<<>>)
                /\ add_message("user", user_input, "normal", Len(workers) + 1)
                /\ is_processing' = TRUE
                /\ workers' = Append(workers, Thread(user_input, messages))
                /\ UNCHANGED <<supervisor, message_queue, show_thoughts, gui_pc,
                               pending_checks, queue_req, IntegrationVars>>

\* the requests of the entries of msgs that are not hidden thoughts
RECURSIVE VisibleReqs(_, _, _)
VisibleReqs(msgs, reqs, show) ==
    IF msgs = <<>> THEN <<>>
    ELSE (IF Head(msgs).message_type = "thought" /\ ~show THEN <<>> ELSE <<Head(reqs)>>)
         \o VisibleReqs(Tail(msgs), Tail(reqs), show)

\* the change of toggle_thoughts_display that removes the hidden thoughts from
\* self.messages instead of only not drawing them
toggle_thoughts_display_drops_hidden ==
    /\ gui_pc = "idle"
    /\ show_thoughts' = ~show_thoughts
    /\ messages' = RenderAll(<<>>, messages, show_thoughts')
    /\ msg_req' = VisibleReqs(messages, msg_req, show_thoughts')
    /\ widgets' = messages'
    /\ event' = NoCall
    /\ UNCHANGED <<supervisor, message_queue, is_processing, input_text,
                   workers, gui_pc, pending_checks, queue_req, IntegrationVars>>

\* toggle_thoughts_display: the checkbutton has flipped show_thoughts
toggle_thoughts_display ==
    /\ gui_pc = "idle"
    /\ show_thoughts' = ~show_thoughts
    /\ widgets' = RenderAll(<<>>, messages, show_thoughts')
    /\ event' = NoCall
    /\ UNCHANGED <<supervisor, messages, message_queue, is_processing, input_text,
                   workers, gui_pc, pending_checks, msg_req, queue_req,
                   IntegrationVars>>

----------------------------------------------------------------------------
(* GUI thread: check_message_queue, one get_nowait() per step *)

Payload(type, content) == [type |-> type, content |-> content]

\* the timer fires and the handler enters its loop
check_message_queue ==
    /\ gui_pc = "idle"
    /\ pending_checks > 0
    /\ gui_pc' = "draining"
    /\ pending_checks' = pending_checks - 1
    /\ event' = NoCall
    /\ UNCHANGED <<supervisor, messages, message_queue, is_processing, show_thoughts,
                   input_text, widgets, workers, msg_req, queue_req,
                   IntegrationVars>>

\* the change of the poller that takes the newest payload (a stack, not a queue)
QueueGetIndex_last(q) == Len(q)

\* which end of the queue get_nowait() takes
QueueGetIndex(q) == 1

RemoveAt(q, i) == SubSeq(q, 1, i - 1) \o SubSeq(q, i + 1, Len(q))

\* the change of check_message_queue that re-enables submission as soon as
\* the answer is delivered
check_message_queue_get_final_enables ==
    /\ gui_pc = "draining"
    /\ message_queue # <<>>
    /\ LET i == QueueGetIndex(message_queue)
           p == message_queue[i]
           req == queue_req[i]
       IN  /\ message_queue' = RemoveAt(message_queue, i)
           /\ queue_req' = RemoveAt(queue_req, i)
           /\ IF p.type = "thought"
              THEN /\ add_message("assistant", p.content, "thought", req)
                   /\ UNCHANGED is_processing
              ELSE IF p.type = "final"
              THEN /\ add_message("assistant", p.content, "final", req)
                   /\ is_processing' = FALSE
              ELSE IF p.type = "error"
              THEN /\ add_message("system", p.content, "error", req)
                   /\ UNCHANGED is_processing
              ELSE /\ is_processing' = FALSE
                   /\ UNCHANGED <<messages, widgets, msg_req>>
    /\ event' = NoCall
    /\ UNCHANGED <<supervisor, show_thoughts, input_text, workers, gui_pc,
                   pending_checks, IntegrationVars>>

\* get_nowait() returned a payload: the body of the while loop
check_message_queue_get ==
    /\ gui_pc = "draining"
    /\ message_queue # <<>>
    /\ LET i == QueueGetIndex(message_queue)
           p == message_queue[i]
           req == queue_req[i]
       IN  /\ message_queue' = RemoveAt(message_queue, i)
           /\ queue_req' = RemoveAt(queue_req, i)
           /\ IF p.type = "thought"
              THEN /\ add_message("assistant", p.content, "thought", req)
                   /\ UNCHANGED is_processing
              ELSE IF p.type = "final"
              THEN /\ add_message("assistant", p.content, "final", req)
                   /\ UNCHANGED is_processing
              ELSE IF p.type = "error"
              THEN /\ add_message("system", p.content, "error", req)
                   /\ UNCHANGED is_processing
              ELSE IF p.type = "enable_submit"
              THEN /\ is_processing' = FALSE
                   /\ UNCHANGED <<messages, widgets, msg_req>>
              ELSE UNCHANGED <<is_processing, messages, widgets, msg_req>>
    /\ event' = NoCall
    /\ UNCHANGED <<supervisor, show_thoughts, input_text, workers, gui_pc,
                   pending_checks, IntegrationVars>>

\* the change of check_message_queue that schedules the next check inside the
\* try block, behind the loop, where queue.Empty skips it
check_message_queue_empty_no_reschedule ==
    /\ gui_pc = "draining"
    /\ message_queue = <<>>
    /\ gui_pc' = "idle"
    /\ event' = NoCall
    /\ UNCHANGED <<supervisor, messages, message_queue, is_processing, show_thoughts,
                   input_text, widgets, workers, msg_req, queue_req,
                   pending_checks, IntegrationVars>>

\* get_nowait() raised queue.Empty: leave the loop, schedule the next check
check_message_queue_empty ==
    /\ gui_pc = "draining"
    /\ message_queue = <<>>
    /\ gui_pc' = "idle"
    /\ pending_checks' = pending_checks + 1
    /\ event' = NoCall
    /\ UNCHANGED <<supervisor, messages, message_queue, is_processing, show_thoughts,
                   input_text, widgets, workers, msg_req, queue_req,
                   IntegrationVars>>

----------------------------------------------------------------------------
(* Worker thread: process_user_input *)

WorkerFrame == <<supervisor, messages, is_processing, show_thoughts, input_text,
                 widgets, gui_pc, pending_checks, msg_req, IntegrationVars>>

\* the change of put that adds the payload at the head of the queue
put_front(w, type, content, pc) ==
    /\ message_queue' = <<Payload(type, content)>> \o message_queue
    /\ queue_req' = <<w>> \o queue_req
    /\ workers' = [workers EXCEPT ![w].pc = pc,
                                  ![w].puts = Append(@, Payload(type, content))]

\* self.message_queue.put((type, content)) by worker w, which then goes to pc
put(w, type, content, pc) ==
    /\ message_queue' = Append(message_queue, Payload(type, content))
    /\ queue_req' = Append(queue_req, w)
    /\ workers' = [workers EXCEPT ![w].pc = pc,
                                  ![w].puts = Append(@, Payload(type, content))]

goto(w, pc) ==
    /\ workers' = [workers EXCEPT ![w].pc = pc]
    /\ UNCHANGED <<message_queue, queue_req>>

\* the change of the loop body that handles final_res before output_thoughts
LoopBody_final_first == <<"final", "thought">>

\* the statements of the loop body, in program order
LoopBody == <<"thought", "final">>

\* where the thread goes after the loop-body statement `stmt`
AfterStmt(stmt) == IF stmt = LoopBody[1] THEN LoopBody[2] ELSE "next"

\* the for statement pulls the next element from the generator
worker_next(w) ==
    /\ workers[w].pc = "next"
    /\ \E o \in GenNext(supervisor, workers[w].user_input, workers[w].yielded) :
          workers' = [workers EXCEPT
              ![w].pc = IF o.kind = "yield" THEN LoopBody[1]
                        ELSE IF o.kind = "raise" THEN "except" ELSE "finally",
              ![w].cur = o.elem,
              ![w].exc = o.exc,
              ![w].yielded = IF o.kind = "yield" THEN Append(@, o.elem) ELSE @]
    /\ UNCHANGED <<message_queue, queue_req>>

\* if output_thoughts: put(("thought", output_thoughts))
worker_thought(w) ==
    /\ workers[w].pc = "thought"
    /\ IF Truthy(workers[w].cur.thought)
       THEN put(w, "thought", workers[w].cur.thought[1], AfterStmt("thought"))
       ELSE goto(w, AfterStmt("thought"))

\* if final_res: put(("final", final_res))
worker_final(w) ==
    /\ workers[w].pc = "final"
    /\ IF Truthy(workers[w].cur.final)
       THEN put(w, "final", workers[w].cur.final[1], AfterStmt("final"))
       ELSE goto(w, AfterStmt("final"))

ErrorText(exc) == <<"Error processing request: ">> \o exc

\* the change of worker_except that leaves the thread without running finally
worker_except_no_finally(w) ==
    /\ workers[w].pc = "except"
    /\ put(w, "error", ErrorText(workers[w].exc), "done")

\* the change of worker_except that swallows the exception (except: pass)
worker_except_swallows(w) ==
    /\ workers[w].pc = "except"
    /\ goto(w, "finally")

\* the change of worker_except that re-enables submission in the handler
\* instead of reporting the error
worker_except_enables_submit(w) ==
    /\ workers[w].pc = "except"
    /\ put(w, "enable_submit", <<>>, "finally")

\* except Exception as e: put(("error", ...))
worker_except(w) ==
    /\ workers[w].pc = "except"
    /\ put(w, "error", ErrorText(workers[w].exc), "finally")

\* the change of worker_finally that ends the thread without the put
worker_finally_no_put(w) ==
    /\ workers[w].pc = "finally"
    /\ goto(w, "done")

\* finally: put(("enable_submit", ""))
worker_finally(w) ==
    /\ workers[w].pc = "finally"
    /\ put(w, "enable_submit", <<>>, "done")

\* the change of process_user_input whose finally clause also clears
\* self.is_processing from the worker thread
process_user_input_clears_flag ==
    /\ \E w \in 1..Len(workers) :
          /\ \/ worker_next(w)
             \/ worker_thought(w)
             \/ worker_final(w)
             \/ worker_except(w)
             \/ worker_finally(w)
          /\ is_processing' = (is_processing /\ workers[w].pc # "finally")
    /\ event' = NoCall
    /\ UNCHANGED <<supervisor, messages, show_thoughts, input_text,
                   widgets, gui_pc, pending_checks, msg_req, IntegrationVars>>

process_user_input ==
    /\ \E w \in 1..Len(workers) :
          \/ worker_next(w)
          \/ worker_thought(w)
          \/ worker_final(w)
          \/ worker_except(w)
          \/ worker_finally(w)
    /\ event' = NoCall
    /\ UNCHANGED WorkerFrame

----------------------------------------------------------------------------
(* integration_example.py: iterating a supervisor's generator *)

GuiVars == <<supervisor, messages, message_queue, is_processing, show_thoughts,
             input_text, widgets, workers, gui_pc, pending_checks, event, msg_req,
             queue_req>>

\* supervisor.process_input(user_input) is called and the loop begins
sup_call ==
    /\ iteration.status # "running"
    /\ iteration.calls < MaxCalls
    /\ \E cls \in Classes :
          \* the adapter only hands the text on to the wrapped object, whose
          \* answers WrappedObjects enumerates: one text is given to it
          \E user_input \in (IF cls = "SupervisorAdapter" THEN {<<"hello">>}
                                                            ELSE UserTexts) :
          \E wrapped \in (IF cls = "SupervisorAdapter" THEN WrappedObjects
                                                         ELSE {NoObject}) :
             iteration' = Iteration(cls, wrapped, user_input, iteration.calls + 1)
    /\ UNCHANGED <<conversation_history, GuiVars>>

\* the event loop after a resumption of the generator that yields: the body
\* of AsyncSupervisorExample.process_input creates it when it first runs
LoopWhenYielding(it) ==
    IF it.cls = "AsyncSupervisorExample" /\ it.loop = "none" THEN "open" ELSE it.loop

\* the event loop after the generator was left by `exit`: a body that has
\* not run, or has ended, has no finally clause to run
LoopWhenLeaving(it, exit) ==
    IF it.cls = "AsyncSupervisorExample" /\ it.loop = "open"
    THEN AsyncFinally(exit)
    ELSE it.loop

\* the loop pulls the next element, or finds the generator exhausted
sup_next ==
    /\ iteration.status = "running"
    /\ LET all == ElementsOf(iteration.cls, iteration.wrapped, iteration.user_input)
           n == Len(iteration.out)
       IN  IF n < Len(all)
           THEN /\ iteration' = [iteration EXCEPT !.out = Append(@, all[n + 1]),
                                                  !.loop = LoopWhenYielding(iteration)]
                /\ IF iteration.cls = "YourActualSupervisor" /\ n + 1 = Len(all)
                   THEN conversation_history' =
                            update_conversation_history(conversation_history,
                                iteration.user_input, all[n + 1].final[1])
                   ELSE UNCHANGED conversation_history
           ELSE /\ iteration' = [iteration EXCEPT
                                    !.status = "exhausted",
                                    !.loop = LoopWhenLeaving(iteration, "exhausted")]
                /\ UNCHANGED conversation_history
    /\ UNCHANGED GuiVars

\* `if response: ... break` of the loop under __main__
sup_break ==
    /\ iteration.status = "running"
    /\ iteration.out # <<>>
    /\ Truthy(iteration.out[Len(iteration.out)].final)
    /\ iteration' = [iteration EXCEPT !.status = "broken"]
    /\ UNCHANGED <<conversation_history, GuiVars>>

\* the consumer gives the generator up before its end: generator.close(), or
\* the finalisation of a generator the consumer has dropped. GeneratorExit is
\* raised at the yield where the generator is suspended, which runs the
\* finally clauses around it.
sup_close ==
    /\ iteration.status \in {"running", "broken"}
    /\ iteration' = [iteration EXCEPT !.status = "closed",
                                      !.loop = LoopWhenLeaving(iteration, "closed")]
    /\ UNCHANGED <<conversation_history, GuiVars>>

\* an await of async_process raises (the async LLM call fails): the exception
\* leaves run_until_complete and the generator
sup_raise ==
    /\ iteration.status = "running"
    /\ iteration.cls = "AsyncSupervisorExample"
    /\ iteration.out # <<>>
    /\ Len(iteration.out) < Len(Async_process_input(iteration.user_input))
    /\ iteration' = [iteration EXCEPT !.status = "raised",
                                      !.loop = LoopWhenLeaving(iteration, "raised")]
    /\ UNCHANGED <<conversation_history, GuiVars>>

\* the state in which the loops over process_input begin: as Init, with a
\* YourActualSupervisor that has or has not served calls before
SupInit ==
    /\ supervisor = "MockSupervisor"
    /\ messages = <<>>
    /\ message_queue = <<>>
    /\ is_processing = FALSE
    /\ show_thoughts = TRUE
    /\ input_text = Placeholder
    /\ widgets = <<>>
    /\ workers = <<>>
    /\ gui_pc = "idle"
    /\ pending_checks = 1
    /\ event = NoCall
    /\ msg_req = <<>>
    /\ queue_req = <<>>
    /\ iteration = NoIteration
    /\ conversation_history \in Histories

SupNext == sup_call \/ sup_next \/ sup_break \/ sup_close \/ sup_raise

SupSpec == SupInit /\ [][SupNext]_vars

----------------------------------------------------------------------------

Next ==
    \/ type_text
    \/ clear_placeholder
    \/ add_placeholder
    \/ submit_message
    \/ toggle_thoughts_display
    \/ check_message_queue
    \/ check_message_queue_get
    \/ check_message_queue_empty
    \/ process_user_input

Spec == Init /\ [][Next]_vars

FairSpec ==
    /\ Spec
    /\ WF_vars(process_user_input)
    /\ WF_vars(check_message_queue)
    /\ WF_vars(check_message_queue_get)
    /\ WF_vars(check_message_queue_empty)

----------------------------------------------------------------------------
(* Vocabulary of the properties *)

Requests == 1..Len(workers)

IsPrefix(s, t) == Len(s) <= Len(t) /\ SubSeq(t, 1, Len(s)) = s

\* number of payloads of the given type in a sequence of payloads
CountType(ps, type) == Cardinality({ i \in 1..Len(ps) : ps[i].type = type })

\* the transcript entries of request w, in transcript order
RECURSIVE EntriesUpTo(_, _)
EntriesUpTo(w, n) ==
    IF n = 0 THEN <<>>
    ELSE IF msg_req[n] = w THEN Append(EntriesUpTo(w, n - 1), messages[n])
         ELSE EntriesUpTo(w, n - 1)
Entries(w) == EntriesUpTo(w, Len(messages))

\* what the supervisor has produced for request w so far, as transcript
\* entries in production order: per element the thought, then the answer
RECURSIVE ProducedBy(_)
ProducedBy(elems) ==
    IF elems = <<>> THEN <<>>
    ELSE LET e == Head(elems)
         IN  (IF Truthy(e.thought)
              THEN <<ChatMessage("assistant", e.thought[1], "thought")>> ELSE <<>>)
             \o (IF Truthy(e.final)
                 THEN <<ChatMessage("assistant", e.final[1], "final")>> ELSE <<>>)
             \o ProducedBy(Tail(elems))

Raised(w) == workers[w].pc \in {"except", "finally", "done"} /\ workers[w].exc # <<>>

\* request w is complete: its thread has ended and the poller has taken
\* everything the thread put
Completed(w) ==
    /\ workers[w].pc = "done"
    /\ \A i \in 1..Len(queue_req) : queue_req[i] # w

----------------------------------------------------------------------------
(* C1: for every accepted submission the worker puts the enable_submit
   payload exactly once, as the last payload it puts, on the normal path
   and on the exception path alike: a thread that has ended has put exactly
   one enable_submit and it is its last put; a thread that has not ended
   has put none. *)
C1_DoneOnceAndLast ==
    \A w \in Requests :
        LET ps == workers[w].puts
        IN  IF workers[w].pc = "done"
            THEN /\ CountType(ps, "enable_submit") = 1
                 /\ ps[Len(ps)].type = "enable_submit"
            ELSE CountType(ps, "enable_submit") = 0

\* one thread has ended after its generator raised, another after a normal end
C1_Witness ==
    \E v, w \in Requests :
        /\ workers[v].pc = "done" /\ workers[v].exc # <<>>
        /\ workers[w].pc = "done" /\ workers[w].exc = <<>>

----------------------------------------------------------------------------
(* C2: under every interleaving of worker, poller and submit attempts the
   assistant and system entries of each request are, in transcript order,
   a prefix of what the supervisor produced for it, in production order;
   and the requests are not interleaved: every request's entries begin with
   its user message and follow all entries of the requests before it. *)
C2_OrderedAndSeparate ==
    /\ \A w \in Requests :
           LET es == Entries(w)
           IN  /\ es # <<>>
               /\ es[1] = ChatMessage("user", workers[w].user_input, "normal")
               /\ IsPrefix(Tail(es),
                           ProducedBy(workers[w].yielded)
                           \o (IF Raised(w)
                               THEN <<ChatMessage("system", ErrorText(workers[w].exc),
                                                  "error")>>
                               ELSE <<>>))
    /\ \A i, j \in 1..Len(messages) : i < j => msg_req[i] <= msg_req[j]

\* the second request has been answered while the first one's entries,
\* two thoughts among them, stand before its user message
C2_Witness ==
    /\ Len(workers) = 2
    /\ Len(Entries(1)) >= 4
    /\ Len(Entries(2)) >= 3

----------------------------------------------------------------------------
(* C3: whenever is_processing is true it eventually becomes false again,
   the generator being finite and the worker and the poller being
   scheduled. *)
C3_ProcessingEnds == is_processing ~> ~is_processing

\* a request was accepted and the flag is clear again
C3_Witness == workers # <<>> /\ Completed(Len(workers)) /\ ~is_processing

----------------------------------------------------------------------------
(* C4: a call of submit_message while is_processing is true changes neither
   the transcript, nor the flag, nor the queue, nor the set of worker
   threads, whatever the input text is. *)
C4_SubmitWhileProcessingIsNoOp ==
    [][(event'.op = "submit_message" /\ is_processing)
        => UNCHANGED <<messages, is_processing, message_queue, workers,
                       widgets, input_text>>]_vars

\* submit_message has run while processing, with a text it would accept when idle
C4_Witness ==
    /\ event.op = "submit_message"
    /\ event.busy
    /\ is_processing
    /\ ~SubmitRejects(FALSE, strip(TextGet(event.text)))

----------------------------------------------------------------------------
(* Vocabulary of C5: white space and trimming, stated without strip *)

IsBlank(t) == \A i \in 1..Len(t) : t[i] \in Whitespace

\* c is t without its leading and trailing white space, and is not empty
IsTrimOf(c, t) ==
    /\ c # <<>>
    /\ c[1] \notin Whitespace
    /\ c[Len(c)] \notin Whitespace
    /\ \E i \in 1..Len(t) :
          /\ i + Len(c) - 1 <= Len(t)
          /\ SubSeq(t, i, i + Len(c) - 1) = c
          /\ IsBlank(SubSeq(t, 1, i - 1))
          /\ IsBlank(SubSeq(t, i + Len(c), Len(t)))

\* the step leaves transcript, flag, queue and threads as they were
SubmitRejected == UNCHANGED <<messages, is_processing, message_queue, workers>>

\* the step appends exactly one user message holding the trimmed text, sets
\* the flag and starts exactly one worker thread
SubmitAccepted(text) ==
    /\ Len(messages') = Len(messages) + 1
    /\ SubSeq(messages', 1, Len(messages)) = messages
    /\ messages'[Len(messages')].sender = "user"
    /\ messages'[Len(messages')].message_type = "normal"
    /\ IsTrimOf(messages'[Len(messages')].content, text)
    /\ is_processing'
    /\ Len(workers') = Len(workers) + 1
    /\ SubSeq(workers', 1, Len(workers)) = workers
    /\ workers'[Len(workers')].pc = "next"
    /\ workers'[Len(workers')].user_input = messages'[Len(messages')].content
    /\ UNCHANGED message_queue

(* C5, as stated: submit_message while idle rejects an empty or
   whitespace-only input (nothing appended, flag false, no worker) and
   accepts any other input (one user message, flag true, one worker). *)
C5_Original ==
    [][(event'.op = "submit_message" /\ ~is_processing)
        => IF IsBlank(input_text)
           THEN SubmitRejected
           ELSE SubmitAccepted(input_text)]_vars

(* C5, amended: submit_message while idle rejects an empty or
   whitespace-only input and an input that is the placeholder text (with or
   without white space around it); any other input is accepted: exactly one
   user message with the trimmed text is appended, is_processing becomes
   true and exactly one worker is started. *)
C5_Amended ==
    [][(event'.op = "submit_message" /\ ~is_processing)
        => IF IsBlank(input_text) \/ IsTrimOf(Placeholder, input_text)
           THEN SubmitRejected
           ELSE SubmitAccepted(input_text)]_vars

\* after an accepted submission, submit_message has run while idle on the
\* placeholder text and has rejected it
C5_Witness ==
    /\ event.op = "submit_message"
    /\ ~event.busy
    /\ IsTrimOf(Placeholder, event.text)
    /\ Len(workers) = 1
    /\ Len(messages) > 1
    /\ ~is_processing

----------------------------------------------------------------------------
(* Vocabulary of C6..C9 *)

\* the non-empty thoughts among the elements, in the order yielded
RECURSIVE ThoughtsYielded(_)
ThoughtsYielded(elems) ==
    IF elems = <<>> THEN <<>>
    ELSE (IF Truthy(Head(elems).thought) THEN <<Head(elems).thought[1]>> ELSE <<>>)
         \o ThoughtsYielded(Tail(elems))

AnswerYielded(elems) == \E i \in 1..Len(elems) : Truthy(elems[i].final)

\* the contents of the thought entries among es, in order
RECURSIVE ThoughtEntries(_)
ThoughtEntries(es) ==
    IF es = <<>> THEN <<>>
    ELSE (IF Head(es).message_type = "thought" THEN <<Head(es).content>> ELSE <<>>)
         \o ThoughtEntries(Tail(es))

\* the length of the transcript when request w had completed and nothing of
\* a later request had been appended
LengthAtCompletion(w) ==
    IF w < Len(workers) THEN Len(workers[w + 1].before) ELSE Len(messages)

(* C6, as stated: once an accepted submission has completed, the transcript
   is longer than before the submission by 1 (the user message) plus the
   number of thoughts yielded plus exactly 1 terminal message. *)
C6_LengthAfterCompletion ==
    \A w \in Requests :
        Completed(w) =>
            LengthAtCompletion(w) =
                Len(workers[w].before) + 1
                + Len(ThoughtsYielded(workers[w].yielded)) + 1

\* the same, for the requests whose generator yielded an answer or raised
C6_LengthUnlessExhausted ==
    \A w \in Requests :
        (Completed(w) /\ (AnswerYielded(workers[w].yielded) \/ Raised(w))) =>
            LengthAtCompletion(w) =
                Len(workers[w].before) + 1
                + Len(ThoughtsYielded(workers[w].yielded)) + 1

----------------------------------------------------------------------------
(* C7: within each request the thought entries are appended in the order
   the supervisor yielded the thoughts, and none is appended after the
   request's final or error entry. *)
C7_ThoughtsInOrderBeforeTerminal ==
    \A w \in Requests :
        LET es == Entries(w)
        IN  /\ IsPrefix(ThoughtEntries(es), ThoughtsYielded(workers[w].yielded))
            /\ \A i, j \in 1..Len(es) :
                   (i < j /\ es[i].message_type \in {"final", "error"})
                       => es[j].message_type # "thought"

\* a request whose last element carried a thought and the answer is
\* complete: five thoughts, then the final entry
C7_Witness ==
    \E w \in Requests :
        /\ Completed(w)
        /\ Len(ThoughtEntries(Entries(w))) = 5
        /\ Entries(w)[7].message_type = "final"

----------------------------------------------------------------------------
(* C8: if the generator raises, the worker catches the exception, puts
   exactly one error payload and then the enable_submit payload; the
   transcript gains one error entry after the entries already delivered for
   the request; the entries that stood before the request are unchanged;
   and is_processing ends false. *)
C8_RaiseBecomesOneError ==
    \A w \in Requests :
        LET ps == workers[w].puts
            err == ChatMessage("system", ErrorText(workers[w].exc), "error")
        IN  /\ IsPrefix(workers[w].before, messages)
            /\ (Raised(w) /\ workers[w].pc = "done") =>
                   /\ CountType(ps, "error") = 1
                   /\ Len(ps) >= 2
                   /\ ps[Len(ps) - 1] = Payload("error", ErrorText(workers[w].exc))
                   /\ ps[Len(ps)] = Payload("enable_submit", <<>>)
            /\ (Raised(w) /\ Completed(w)) =>
                   /\ Entries(w) =
                        <<ChatMessage("user", workers[w].user_input, "normal")>>
                        \o ProducedBy(workers[w].yielded) \o <<err>>
                   /\ IsPrefix(workers[w].before \o Entries(w), messages)
                   /\ (w = Len(workers) => ~is_processing)

\* a second request, whose generator raised after yielding a thought, is complete
C8_Witness ==
    /\ Len(workers) = 2
    /\ Raised(2)
    /\ Completed(2)
    /\ Len(ThoughtsYielded(workers[2].yielded)) >= 1

----------------------------------------------------------------------------
(* C9, as stated: if the generator is exhausted without ever yielding a
   non-empty answer, an error entry is appended to the transcript for that
   request and is_processing is cleared. *)
C9_ExhaustionIsAnError ==
    \A w \in Requests :
        (Completed(w) /\ ~Raised(w) /\ ~AnswerYielded(workers[w].yielded)) =>
            /\ \E i \in 1..Len(Entries(w)) : Entries(w)[i].message_type = "error"
            /\ (w = Len(workers) => ~is_processing)

----------------------------------------------------------------------------
(* Vocabulary of C10 *)

ExactlyOneNonEmpty(e) == Truthy(e.thought) # Truthy(e.final)

\* the value the wrapped object returned is passed on as it is: an element
\* of SupervisorAdapter whose fields are both empty
PassesOnEmpty(e) == ~Truthy(e.thought) /\ ~Truthy(e.final)

\* the element is the last one of the generator
IsLastOf(i, it) == i = Len(ElementsOf(it.cls, it.wrapped, it.user_input))

(* C10, as stated: every element yielded by a supervisor generator of the
   repository has exactly one of its two fields non-empty, and the element
   carrying the non-empty answer is the last element of the sequence. *)
C10_Original ==
    \A i \in 1..Len(iteration.out) :
        /\ ExactlyOneNonEmpty(iteration.out[i])
        /\ Truthy(iteration.out[i].final) => IsLastOf(i, iteration)

(* C10, amended: every element yielded by a supervisor generator of the
   repository has exactly one of its two fields non-empty, except the last
   element of MockSupervisor.process_query, which carries a non-empty
   thought and the non-empty answer, and except the elements in which
   SupervisorAdapter.process_input passes on an empty value (None or "")
   that the wrapped object returned, which have no non-empty field; no
   element but the last of the sequence carries a non-empty answer. *)
C10_Amended ==
    \A i \in 1..Len(iteration.out) :
        LET e == iteration.out[i]
            both == Truthy(e.thought) /\ Truthy(e.final)
        IN  /\ Truthy(e.final) => IsLastOf(i, iteration)
            /\ (iteration.cls = "MockSupervisor" /\ IsLastOf(i, iteration)) => both
            /\ \/ ExactlyOneNonEmpty(e)
               \/ iteration.cls = "MockSupervisor" /\ IsLastOf(i, iteration) /\ both
               \/ /\ iteration.cls = "SupervisorAdapter"
                  /\ PassesOnEmpty(e)
                  /\ \/ e.thought = None /\ e.final = iteration.wrapped.response
                     \/ /\ e.final = None
                        /\ \E k \in 1..Len(iteration.wrapped.callbacks) :
                              e.thought = iteration.wrapped.callbacks[k]

\* a MockSupervisor generator is exhausted, its last element carrying a
\* thought and the answer, after a YourActualSupervisor generator was
\* iterated to its answer
C10_Witness ==
    /\ iteration.cls = "MockSupervisor"
    /\ iteration.status = "exhausted"
    /\ Len(iteration.out) = 5
    /\ Truthy(iteration.out[5].thought) /\ Truthy(iteration.out[5].final)
    /\ conversation_history # <<>>

----------------------------------------------------------------------------
(* Vocabulary of C11..C19 *)

\* the step is a run of toggle_thoughts_display: the only handler after which
\* the checkbutton's variable has another value
ToggleStep == show_thoughts' # show_thoughts

\* the step is a get_nowait() that returned a payload
DequeueStep == Len(message_queue') < Len(message_queue)

\* the step is a step of a worker thread that was already running
WorkerStep == Len(workers') = Len(workers) /\ workers' # workers

\* the step starts a worker thread
StartStep == Len(workers') > Len(workers)

\* the entries of es that are not thoughts, in order
RECURSIVE NonThoughts(_)
NonThoughts(es) ==
    IF es = <<>> THEN <<>>
    ELSE (IF Head(es).message_type # "thought" THEN <<Head(es)>> ELSE <<>>)
         \o NonThoughts(Tail(es))

\* thread w is iterating the supervisor or has a payload left to put
Running(w) == workers[w].pc # "done"

(* C11: a run of toggle_thoughts_display, in any state and also while a
   request is in flight, changes neither the length, the order nor the
   content of self.messages, nor is_processing, nor the message queue (nor
   the worker threads); of the rendered entries only the thoughts change:
   all of the transcript's thoughts are rendered after it, or none. *)
C11_ToggleLeavesTranscript ==
    [][ToggleStep =>
          /\ UNCHANGED <<messages, is_processing, message_queue, workers>>
          /\ NonThoughts(widgets') = NonThoughts(widgets)
          /\ ThoughtEntries(widgets') =
                 IF show_thoughts' THEN ThoughtEntries(messages) ELSE <<>>]_vars

\* thoughts are hidden while a request is in flight whose thought is in the
\* transcript and whose next payload is on the queue
C11_Witness ==
    /\ ~show_thoughts
    /\ is_processing
    /\ message_queue # <<>>
    /\ ThoughtEntries(messages) # <<>>
    /\ ThoughtEntries(widgets) = <<>>

----------------------------------------------------------------------------
(* C12: is_processing changes from false to true only in an accepted
   submit_message, and from true to false only when the poller dequeues the
   enable_submit payload, after a normal end and after an exception alike;
   dequeuing a thought, final or error payload never changes it. *)
C12_TwoStateController ==
    [][/\ (~is_processing /\ is_processing') =>
              /\ event'.op = "submit_message"
              /\ ~event'.busy
              /\ Len(messages') = Len(messages) + 1
              /\ messages'[Len(messages')].sender = "user"
              /\ StartStep
       /\ (is_processing /\ ~is_processing') =>
              /\ gui_pc = "draining"
              /\ DequeueStep
              /\ Head(message_queue) = Payload("enable_submit", <<>>)
       /\ (DequeueStep /\ Head(message_queue).type \in {"thought", "final", "error"})
              => UNCHANGED is_processing]_vars

\* the flag is clear again after a request that raised and after one that
\* ended normally with an answer
C12_Witness ==
    /\ ~is_processing
    /\ \E v, w \in Requests :
          /\ Completed(v) /\ Raised(v)
          /\ Completed(w) /\ ~Raised(w) /\ AnswerYielded(workers[w].yielded)

----------------------------------------------------------------------------
(* C13: in every reachable state at most one request is in flight: at most
   one worker thread is iterating the supervisor or has payloads left to
   put, every request but the newest is complete, and a worker thread is
   started only when the enable_submit payload of the request before it has
   been dequeued. *)
C13_OneRequestInFlight ==
    /\ [](/\ Cardinality({ w \in Requests : Running(w) }) <= 1
          /\ \A w \in Requests : w < Len(workers) => Completed(w))
    /\ [][StartStep =>
            /\ Len(workers') = Len(workers) + 1
            /\ ~is_processing
            /\ \A w \in Requests :
                  /\ Completed(w)
                  /\ workers[w].puts[Len(workers[w].puts)].type = "enable_submit"]_vars

\* a second worker is running after the first request has completed
C13_Witness ==
    /\ Len(workers) = 2
    /\ Completed(1)
    /\ Running(2)
    /\ workers[2].puts # <<>>

----------------------------------------------------------------------------
(* C14: a step of the worker thread never changes self.messages or
   is_processing (nor anything else of the GUI); all it does to the shared
   state is append one payload to the message queue, or nothing. The
   transcript and the flag change only in steps of the GUI thread: in
   submit_message, or in check_message_queue while it drains the queue. *)
C14_WorkerOnlyPuts ==
    [][/\ WorkerStep =>
              /\ UNCHANGED <<messages, is_processing, widgets, show_thoughts,
                             input_text>>
              /\ \/ UNCHANGED message_queue
                 \/ /\ Len(message_queue') = Len(message_queue) + 1
                    /\ IsPrefix(message_queue, message_queue')
       /\ (messages' # messages \/ is_processing' # is_processing) =>
              /\ ~WorkerStep
              /\ \/ event'.op = "submit_message"
                 \/ gui_pc = "draining" /\ DequeueStep]_vars

\* a worker has put a payload that the poller has not taken yet, while the
\* transcript holds only what the GUI thread appended: the user message
C14_Witness ==
    /\ Len(workers) = 1
    /\ workers[1].puts # <<>>
    /\ Len(message_queue) = Len(workers[1].puts)
    /\ Len(messages) = 1
    /\ is_processing

----------------------------------------------------------------------------
(* C15, as stated: the renderer offers a clear() operation that can be
   called in any state, while idle or processing and whatever the
   transcript holds, and leaves the transcript empty and is_processing
   false: in every reachable state some operation of the program leads to a
   state with an empty transcript and a false flag. *)
C15_ClearInAnyState ==
    ENABLED (Next /\ messages' = <<>> /\ is_processing' = FALSE)

----------------------------------------------------------------------------
(* Vocabulary of C16 *)

\* the transcript entry check_message_queue appends for payload p
Delivery(p) ==
    IF p.type = "error"
    THEN ChatMessage("system", p.content, "error")
    ELSE ChatMessage("assistant", p.content, p.type)

\* the step ends a run of check_message_queue
RunEnds == gui_pc = "draining" /\ gui_pc' = "idle"

(* C16: a run of check_message_queue never waits: while it is in its loop
   it can always take a step. Every payload it dequeues is the oldest one
   on the queue, and a thought, final or error payload is appended to the
   transcript at once, so payloads are delivered in FIFO order. The run
   ends only in a step that finds the queue empty, and no step of a run
   that sees a payload on the queue ends the run: nothing it has seen is
   left undelivered when control returns to the event loop. *)
C16_DrainsAllInOrder ==
    /\ [](gui_pc = "draining" =>
            ENABLED (check_message_queue_get \/ check_message_queue_empty))
    /\ [][/\ DequeueStep =>
                /\ gui_pc = "draining"
                /\ message_queue' = Tail(message_queue)
                /\ queue_req' = Tail(queue_req)
                /\ Head(message_queue).type \in {"thought", "final", "error"}
                       => messages' = Append(messages, Delivery(Head(message_queue)))
          /\ RunEnds => message_queue = <<>> /\ message_queue' = <<>>
          /\ (gui_pc = "draining" /\ message_queue # <<>>) => gui_pc' = "draining"]_vars

\* a run is in its loop with several payloads of one request on the queue,
\* a thought before the answer, after an earlier payload of the request was
\* delivered
C16_Witness ==
    /\ gui_pc = "draining"
    /\ Len(message_queue) >= 2
    /\ message_queue[1].type = "thought"
    /\ message_queue[2].type = "final"
    /\ ThoughtEntries(Entries(Len(workers))) # <<>>

----------------------------------------------------------------------------
(* C17: self.messages is append-only. Every step leaves the transcript as
   it was or appends one message to it, so the transcript of every earlier
   state is a prefix of the transcript of every later one and no appended
   message changes its sender, content or message_type; in particular the
   transcript as it stood at each submission, and that submission's user
   message, stay a prefix of the transcript. *)
C17_AppendOnly ==
    /\ [][/\ IsPrefix(messages, messages')
          /\ Len(messages') <= Len(messages) + 1]_vars
    /\ [](\A w \in Requests :
             IsPrefix(workers[w].before
                      \o <<ChatMessage("user", workers[w].user_input, "normal")>>,
                      messages))

\* submissions, deliveries and a toggle have happened: a second request is
\* complete behind the entries of the first, and thoughts are hidden
C17_Witness ==
    /\ Len(workers) = 2
    /\ Completed(2)
    /\ ~show_thoughts
    /\ Len(workers[2].before) >= 3
    /\ Len(messages) >= Len(workers[2].before) + 3

----------------------------------------------------------------------------
(* Vocabulary of C18 *)

\* message m is drawn under the present setting of the checkbutton
Rendered(m) == show_thoughts \/ m.message_type # "thought"

(* C18: in every reachable state the rendered message widgets are exactly
   the entries of self.messages, in transcript order, without the thought
   entries if and only if show_thoughts is false; and a toggle that shows
   the thoughts again renders the whole transcript, the thoughts delivered
   while hidden at their transcript positions. *)
C18_WidgetsAreFilteredTranscript ==
    /\ [](widgets = SelectSeq(messages, Rendered))
    /\ [][(ToggleStep /\ show_thoughts') => widgets' = messages']_vars

\* thoughts are hidden: the widgets are the user message and the answer of a
\* complete request, and the transcript holds its thoughts between them
C18_Witness ==
    /\ ~show_thoughts
    /\ Len(workers) = 1
    /\ Completed(1)
    /\ Len(widgets) = 2
    /\ widgets[2].message_type = "final"
    /\ Len(messages) > 2
    /\ messages[2].message_type = "thought"

----------------------------------------------------------------------------
(* C19: in every reachable state in which is_processing is false the message
   queue is empty and no worker thread has a payload left to put; and while
   is_processing is false the transcript changes only by the user message
   of an accepted submission, never by a thought, final or error entry. *)
C19_IdleIsQuiet ==
    /\ [](~is_processing =>
            /\ message_queue = <<>>
            /\ \A w \in Requests : ~Running(w))
    /\ [][(~is_processing /\ messages' # messages) =>
            /\ event'.op = "submit_message"
            /\ messages' = Append(messages,
                                  ChatMessage("user", workers'[Len(workers')].user_input,
                                              "normal"))]_vars

\* the poller has just taken the enable_submit payload of a request and is
\* still in its loop
C19_Witness ==
    /\ ~is_processing
    /\ gui_pc = "draining"
    /\ workers # <<>>
    /\ Completed(Len(workers))
    /\ Len(Entries(Len(workers))) >= 2

----------------------------------------------------------------------------
(* Vocabulary of C20 *)

\* the wrapped object has one of the interfaces SupervisorAdapter knows
Recognised(wrapped) ==
    \/ {"analyze", "respond"} \subseteq wrapped.has
    \/ "process_with_callback" \in wrapped.has
    \/ "get_response" \in wrapped.has

\* the adapter takes the callback interface of the wrapped object
CallbackPattern(wrapped) ==
    /\ ~({"analyze", "respond"} \subseteq wrapped.has)
    /\ "process_with_callback" \in wrapped.has

\* the loop over the generator has ended, by exhaustion or by its break
Ended(it) == it.status \in {"exhausted", "broken"}

(* C20: for every wrapped object, every element SupervisorAdapter.process_input
   yields is (thought, None) or (None, response), and nothing is yielded
   after an element that carries a response. Once the loop has ended the
   elements are zero or more (thought, None) followed by exactly one
   (None, response), the last, whose response is the value the wrapped
   object returned. With the callback interface the thoughts handed to the
   callback are yielded in callback order, all of them behind the opening
   thought and before the response that process_with_callback returned.
   For an object with none of the interfaces the generator ends without
   raising after the single element (None, "Error: Supervisor interface not
   recognized"), whose response is non-empty: the consumer's `if response`
   takes it as an answer. *)
C20_AdapterElements ==
    iteration.cls = "SupervisorAdapter" =>
        LET out == iteration.out
            wr == iteration.wrapped
            n == Len(out)
        IN  /\ \A i \in 1..n :
                  /\ out[i].thought = None \/ out[i].final = None
                  /\ out[i].final # None => i = n
            /\ Ended(iteration) =>
                  /\ n >= 1
                  /\ \A i \in 1..(n - 1) : out[i].final = None
                  /\ out[n].thought = None
                  /\ Recognised(wr) => out[n].final = wr.response
                  /\ CallbackPattern(wr) =>
                        /\ n = Len(wr.callbacks) + 2
                        /\ \A k \in 1..Len(wr.callbacks) :
                              out[k + 1] = Element(wr.callbacks[k], None)
                  /\ ~Recognised(wr) =>
                        /\ out = <<Element(None,
                                     Str(<<"Error: Supervisor interface not recognized">>))>>
                        /\ Truthy(out[1].final)

\* the generator of an adapter over an object with the callback interface,
\* whose callback was handed three thoughts, is exhausted on the second call
C20_Witness ==
    /\ iteration.cls = "SupervisorAdapter"
    /\ iteration.status = "exhausted"
    /\ iteration.calls = 2
    /\ CallbackPattern(iteration.wrapped)
    /\ Len(iteration.wrapped.callbacks) = 3
    /\ Len(iteration.out) = 5
    /\ Truthy(iteration.out[5].final)

----------------------------------------------------------------------------
(* Vocabulary of C22 *)

\* the step begins a run of check_message_queue
RunBegins == gui_pc = "idle" /\ gui_pc' = "draining"

(* C22: the poller never stops and never multiplies. Between the runs of
   check_message_queue exactly one call of it is scheduled; a run takes the
   scheduled call, so that none is scheduled while it executes, and ends by
   scheduling exactly one, whatever it dequeued (the dequeues themselves
   schedule nothing). In every reachable state there is exactly one check,
   scheduled or executing, and its next step can be taken. *)
C22_OnePendingCheck ==
    /\ [](/\ pending_checks + (IF gui_pc = "draining" THEN 1 ELSE 0) = 1
          /\ gui_pc = "idle" => pending_checks = 1
          /\ ENABLED (check_message_queue \/ check_message_queue_get
                      \/ check_message_queue_empty))
    /\ [][/\ RunBegins => pending_checks' = pending_checks - 1
          /\ RunEnds => pending_checks' = pending_checks + 1
          /\ ~(RunBegins \/ RunEnds) => UNCHANGED pending_checks]_vars

\* a run that dequeued payloads of a request has ended and the next check is
\* scheduled, while the request is still in flight
C22_Witness ==
    /\ gui_pc = "idle"
    /\ pending_checks = 1
    /\ is_processing
    /\ Len(Entries(Len(workers))) >= 2
    /\ message_queue # <<>>

----------------------------------------------------------------------------
(* C23: submit_message treats an input that is the placeholder text "Type
   your message here... (Ctrl+Enter to submit)" (after strip) like an empty
   input: the call changes neither the transcript, nor is_processing, nor
   the queue, nor the worker threads, nor the input box; and no user
   message of the transcript ever holds that text. *)
C23_PlaceholderIsNotSubmitted ==
    /\ [][(event'.op = "submit_message" /\ IsTrimOf(Placeholder, input_text))
            => UNCHANGED <<messages, is_processing, message_queue, workers,
                           widgets, input_text>>]_vars
    /\ [](\A i \in 1..Len(messages) :
             messages[i].sender = "user" => messages[i].content # Placeholder)

\* submit_message has run on the placeholder text in the fresh window: the
\* transcript is empty, the flag false and no worker was started
C23_Witness ==
    /\ event.op = "submit_message"
    /\ ~event.busy
    /\ IsTrimOf(Placeholder, event.text)
    /\ messages = <<>>
    /\ workers = <<>>
    /\ message_queue = <<>>
    /\ ~is_processing

----------------------------------------------------------------------------
(* Vocabulary of C21 *)

HistoryEntry(role, content) == [role |-> role, content |-> content]

\* the last n entries of s
Suffix(s, n) == SubSeq(s, Len(s) - n + 1, Len(s))

Min(a, b) == IF a <= b THEN a ELSE b

\* the step resumes a YourActualSupervisor generator, which yields the
\* element carrying its response
YieldsResponse ==
    /\ iteration.cls = "YourActualSupervisor"
    /\ iteration.status = "running"
    /\ Len(iteration'.out) = Len(iteration.out) + 1
    /\ Truthy(iteration'.out[Len(iteration'.out)].final)

(* C21: conversation_history never holds more than 20 entries. It changes
   only in the resumption of a YourActualSupervisor generator that yields
   the (None, response) element, so that the history is updated when the
   consumer receives that element, and a generator given up before it
   changes nothing. That resumption adds the call's user entry and its
   assistant entry together, as the two newest, behind the most recent
   entries of the old history, in their order: as many of them as keep the
   length at 20 or less. *)
C21_HistoryKeepsLast20 ==
    /\ [](Len(conversation_history) <= 20)
    /\ [][/\ conversation_history' # conversation_history => YieldsResponse
          /\ iteration'.status = "closed" => UNCHANGED conversation_history
          /\ YieldsResponse =>
                LET h == conversation_history'
                    n == Len(h)
                    e == iteration'.out[Len(iteration'.out)]
                IN  /\ e.thought = None
                    /\ n = Min(Len(conversation_history) + 2, 20)
                    /\ h[n - 1] = HistoryEntry("user", iteration.user_input)
                    /\ h[n] = HistoryEntry("assistant", e.final[1])
                    /\ SubSeq(h, 1, n - 2) = Suffix(conversation_history, n - 2)]_vars

\* a supervisor that had served nine calls has served two more: the history
\* holds 20 entries, the newest two of the present call, and the entries of
\* the oldest call are gone
C21_Witness ==
    /\ iteration.cls = "YourActualSupervisor"
    /\ iteration.calls = 2
    /\ AnswerYielded(iteration.out)
    /\ Len(conversation_history) = 20
    /\ conversation_history[19] = HistoryEntry("user", iteration.user_input)
    /\ conversation_history[1] = HistoryEntry("user", PastText(2))

----------------------------------------------------------------------------
(* C24: AsyncSupervisorExample.process_input yields the elements of its
   inner async generator, as they are and in the same order: what it has
   yielded is always a prefix of them, and all of them once it is
   exhausted (the start thought, each streamed thought, then the one
   (None, response) element). The event loop is created when the
   generator's body first runs, is open while the generator is suspended at
   a yield, and is closed whenever the generator has been left: by
   exhaustion, by an exception of an async step, or by the consumer
   closing it early. *)
C24_AsyncWrapperClosesLoop ==
    iteration.cls = "AsyncSupervisorExample" =>
        LET inner == async_process(iteration.user_input)
            out == iteration.out
        IN  /\ IsPrefix(out, inner)
            /\ iteration.status = "exhausted" => out = inner
            /\ iteration.status = "raised" => out # <<>> /\ out # inner
            /\ out = <<>> => iteration.loop = "none"
            /\ (out # <<>> /\ iteration.status \in {"running", "broken"})
                   => iteration.loop = "open"
            /\ (out # <<>> /\ iteration.status \in {"exhausted", "raised", "closed"})
                   => iteration.loop = "closed"

\* on the second call the await of the response has raised behind the start
\* thought and the two streamed thoughts, and the loop is closed
C24_Witness ==
    /\ iteration.cls = "AsyncSupervisorExample"
    /\ iteration.calls = 2
    /\ iteration.status = "raised"
    /\ Len(iteration.out) = 3
    /\ iteration.loop = "closed"

====
